---- MODULE Spec2Model ----
(***************************************************************************)
(* DonationsPage.jsx: the donation allocation rules of the food-donation   *)
(* page.  The Firestore collections "donations" and "applications" are the *)
(* stored state; every open page (a client) keeps React state fed by two   *)
(* onSnapshot listeners and commits a claim with submitApplication, which  *)
(* validates against that React state, then awaits updateDoc and addDoc.   *)
(*                                                                         *)
(* Numbers: Math.ceil(n * 0.30), Math.ceil(n * 0.35) and                   *)
(* Math.floor(n * 0.3) on IEEE doubles equal the exact ceil(30n/100),      *)
(* ceil(35n/100) and floor(3n/10) for every integer 0 <= n <= 100000, so   *)
(* the percentages are carried as integer percents.                        *)
(*                                                                         *)
(* Time: instants (new Date(), createdAt, expirationDate) are counted in   *)
(* days; the stored quantities are integers, which parseInt leaves alone.  *)
(*                                                                         *)
(* Five specifications: Spec is the page of every client over a pool;      *)
(* EngineSpec is submitApplication on any React state it may read; DaySpec *)
(* is EngineSpec with the calendar day changing; ViewSpec is the donations *)
(* listener on any stored documents; FilterSpec is the listener with the   *)
(* search and status filters.  In Spec the filters stay as first rendered. *)
(*                                                                         *)
(* Left out: the distance filter (never applied), the map, the custom      *)
(* request and household modals, and closing the application modal without *)
(* submitting (onClose only hides it; opening it again resets the          *)
(* selection and the quantity).  While submitApplication awaits a write    *)
(* the page takes no other click.                                          *)
(***************************************************************************)
EXTENDS Integers, Sequences, FiniteSets, TLC

\* ------------------------------------------------------------------ bounds
NumClients == 2
NumDonations == 2
MaxWrites == 3
MaxDay == 2

Clients == 1..NumClients
DonIds == 1..NumDonations

\* originalQuantity of the donations posted: one large, the others small
PostedQuantity(d) == IF d = 1 THEN 10 ELSE 3

\* the calendar day, new Date().toISOString().split('T')[0]
Today == "2024-05-01"

\* toISOString().split('T')[0] of the clock on day t
IsoDays == <<Today, "2024-05-02", "2024-05-03", "2024-05-04">>
isoDate(t) == IsoDays[t]

NoDonation == [id |-> 0]

\* useState of filters, lines 50-54
defaultFilters == [search |-> "", status |-> "available"]
NoData == [donationId |-> 0]

Max(a, b) == IF a >= b THEN a ELSE b
Min(a, b) == IF a <= b THEN a ELSE b

\* ------------------------------------------------------- JavaScript values
\* An optional numeric field of a document is <<>> (undefined) or <<n>>.
\* (x || d) on such a field: undefined and 0 are falsy.
OrElse(x, d) == IF x # <<>> /\ x[1] # 0 THEN x[1] ELSE d

\* parseInt(a) || parseInt(b) || 0 with a a number and b an optional field
ParseOr(a, b) == IF a # 0 THEN a ELSE OrElse(b, 0)

\* ------------------------------------------------------------ the identity
\* useAuth / useHousehold: every client is a signed-in, authorised member.
Uid(c) == c
OtherDonor == NumClients + 1
HouseholdOfSize(h, n) == [id |-> h, memberCount |-> n]
RegularHousehold == HouseholdOfSize(1, 3)
LargeHousehold == HouseholdOfSize(2, 8)

VARIABLES
    donationsCollection,   \* collection(db, "donations"): id -> document
    applicationsCollection,\* collection(db, "applications"): sequence of documents
    writes,                \* number of storage writes applied (the clock of appliedAt)
    household,             \* useHousehold().household of each client
    donations,             \* React state: the derived donation list
    userApplications,      \* React state: the household's applications
    dailyPickupCount,      \* React state
    showApplicationModal,  \* React state
    selectedDonation,      \* React state: the donation the modal was opened for
    applicationQuantity,   \* React state: the stepper's value
    pc,                    \* position in submitApplication: "ready" | "addDoc"
    applicationData,       \* submitApplication's local, alive across its awaits
    notification,          \* the last showError / showSuccess of each client
    now,                   \* the clock, new Date(), in days
    effectToday,           \* today, as the applications effect of each client captured it
    filters,               \* React state: the search term and the status filter
    filteredDonations      \* React state: the list the cards are rendered from

vars == <<donationsCollection, applicationsCollection, writes, household, donations,
          userApplications, dailyPickupCount, showApplicationModal, selectedDonation,
          applicationQuantity, pc, applicationData, notification, now, effectToday,
          filters, filteredDonations>>

storeVars == <<donationsCollection, applicationsCollection, writes>>
modalVars == <<showApplicationModal, selectedDonation, applicationQuantity>>
clockVars == <<now, effectToday>>

\* --------------------------------------------------- the donations listener
\* Instants are counted in days.  5 * 24 * 60 * 60 * 1000 ms, line 30
FiveDays == 5

\* expDate <= fiveDaysFromNow with the bound left out
checkIfUrgentStrict(expirationDate) ==
    IF expirationDate = <<>> THEN FALSE
    ELSE expirationDate[1] < now + FiveDays

\* checkIfUrgent, lines 24-33; new Date() is the clock
checkIfUrgent(expirationDate) ==
    IF expirationDate = <<>> THEN FALSE
    ELSE expirationDate[1] <= now + FiveDays

\* the derivation with a stored fully_booked that has servings left put back to
\* "available" instead of being kept
deriveViewReopening(id, data) ==
    LET originalQuantity == OrElse(data.originalQuantity, OrElse(data.quantity, 0))
        remainingQuantity == OrElse(data.remainingQuantity, originalQuantity)
        stored == IF data.status = "" THEN "available" ELSE data.status
        status == IF remainingQuantity <= 0 /\ stored # "fully_booked"
                    THEN "fully_booked"
                  ELSE IF remainingQuantity > 0 /\ stored = "fully_booked"
                    THEN "available"
                  ELSE IF remainingQuantity < originalQuantity /\ stored = "available"
                    THEN "partially_claimed"
                  ELSE stored
    IN  [id |-> id,
         foodItem |-> data.foodItem,
         donorId |-> data.donorId,
         createdAt |-> data.createdAt,
         expirationDate |-> data.expirationDate,
         quantity |-> data.quantity,
         remainingQuantity |-> remainingQuantity,
         originalQuantity |-> originalQuantity,
         status |-> status,
         isUrgent |-> checkIfUrgent(data.expirationDate)]

\* One document of the snapshot, lines 89-111.  The quantities stored are
\* integers, which parseInt leaves as they are.
deriveView(id, data) ==
    LET originalQuantity == OrElse(data.originalQuantity, OrElse(data.quantity, 0))
        remainingQuantity == OrElse(data.remainingQuantity, originalQuantity)
        stored == IF data.status = "" THEN "available" ELSE data.status
        status == IF remainingQuantity <= 0 /\ stored # "fully_booked"
                    THEN "fully_booked"
                  ELSE IF remainingQuantity < originalQuantity /\ stored = "available"
                    THEN "partially_claimed"
                  ELSE stored
    IN  [id |-> id,
         foodItem |-> data.foodItem,
         donorId |-> data.donorId,
         createdAt |-> data.createdAt,
         expirationDate |-> data.expirationDate,
         quantity |-> data.quantity,
         remainingQuantity |-> remainingQuantity,
         originalQuantity |-> originalQuantity,
         status |-> status,
         isUrgent |-> checkIfUrgent(data.expirationDate)]

\* query(collection(db, "donations"), orderBy("createdAt", "desc")), lines 73-76:
\* the ids of the documents ids, newest first, equal instants by id
RECURSIVE orderByCreatedAtDesc(_, _)
orderByCreatedAtDesc(coll, ids) ==
    IF ids = {} THEN <<>>
    ELSE LET first == CHOOSE d \in ids :
                         \A e \in ids :
                             \/ coll[d].createdAt > coll[e].createdAt
                             \/ coll[d].createdAt = coll[e].createdAt /\ d >= e
         IN  <<first>> \o orderByCreatedAtDesc(coll, ids \ {first})

querySnapshot(coll) == orderByCreatedAtDesc(coll, DOMAIN coll)

\* querySnapshot.forEach over the first n documents of the snapshot, lines 80-113:
\* a document without foodItem is skipped.
RECURSIVE deriveList(_, _)
deriveList(coll, n) ==
    IF n = 0 THEN <<>>
    ELSE LET id == querySnapshot(coll)[n]
             rest == deriveList(coll, n - 1)
         IN  IF coll[id].foodItem = "" THEN rest
             ELSE Append(rest, deriveView(id, coll[id]))

\* the comparator with the dates the other way round
compareOldestFirst(a, b) ==
    IF a.isUrgent /\ ~b.isUrgent THEN -1
    ELSE IF ~a.isUrgent /\ b.isUrgent THEN 1
    ELSE a.createdAt - b.createdAt

\* the comparator of donationsData.sort, lines 116-124
compareDonations(a, b) ==
    IF a.isUrgent /\ ~b.isUrgent THEN -1
    ELSE IF ~a.isUrgent /\ b.isUrgent THEN 1
    ELSE b.createdAt - a.createdAt

\* Array.prototype.sort is stable: e goes after the elements it does not precede
RECURSIVE insertSorted(_, _)
insertSorted(sorted, e) ==
    IF sorted = <<>> THEN <<e>>
    ELSE IF compareDonations(e, Head(sorted)) < 0 THEN <<e>> \o sorted
    ELSE <<Head(sorted)>> \o insertSorted(Tail(sorted), e)

RECURSIVE sortDonations(_)
sortDonations(list) ==
    IF list = <<>> THEN <<>>
    ELSE insertSorted(sortDonations(SubSeq(list, 1, Len(list) - 1)), list[Len(list)])

\* donationsData as handed to setDonations, lines 79-127
donationsData(coll) == sortDonations(deriveList(coll, Cardinality(DOMAIN coll)))

\* the donations listener of client c runs on the collection coll, lines 78-130
donationsListener(c, coll) ==
    LET data == donationsData(coll)
    IN  /\ donations' = [donations EXCEPT ![c] = data]
        /\ filteredDonations' = [filteredDonations EXCEPT ![c] = data]

\* onSnapshot(q, ...) of the donations query delivers the current collection.
DonationsSnapshot(c) ==
    /\ donationsListener(c, donationsCollection)
    /\ UNCHANGED <<storeVars, household, userApplications, dailyPickupCount, modalVars,
                   pc, applicationData, notification, clockVars, filters>>

\* ------------------------------------------------ the applications listener
\* { id: doc.id, ...data }, line 153
withId(n, data) ==
    [id |-> n,
     donationId |-> data.donationId,
     applicantId |-> data.applicantId,
     householdId |-> data.householdId,
     quantity |-> data.quantity,
     applicationDate |-> data.applicationDate,
     status |-> data.status]

\* The documents of the household, each with its id (its place in the collection).
RECURSIVE householdApplications(_, _, _)
householdApplications(coll, h, n) ==
    IF n = 0 THEN <<>>
    ELSE LET rest == householdApplications(coll, h, n - 1)
         IN  IF coll[n].householdId = h
               THEN Append(rest, withId(n, coll[n]))
               ELSE rest

\* totalPickup, lines 149-160
RECURSIVE totalPickup(_, _)
totalPickup(apps, today) ==
    IF apps = <<>> THEN 0
    ELSE LET data == apps[Len(apps)]
             counted == data.applicationDate = today
                        /\ data.status \in {"approved", "completed"}
         IN  totalPickup(SubSeq(apps, 1, Len(apps) - 1), today)
             + (IF counted THEN data.quantity ELSE 0)

\* the applications listener of client c runs on the collection coll, lines 147-164
applicationsListener(c, coll) ==
    LET apps == householdApplications(coll, household[c].id, Len(coll))
    IN  /\ userApplications' = [userApplications EXCEPT ![c] = apps]
        /\ dailyPickupCount' = [dailyPickupCount EXCEPT ![c] = totalPickup(apps, effectToday[c])]

AppsSnapshot(c) ==
    /\ applicationsListener(c, applicationsCollection)
    /\ UNCHANGED <<storeVars, household, donations, filteredDonations, modalVars, pc,
                   applicationData, notification, clockVars, filters>>

\* ------------------------------------------------------------ the policies
\* useHousehold().getMaxDonationPercentage, in percent
getMaxDonationPercentage(hh) == IF hh.memberCount >= 7 THEN 35 ELSE 30

\* the modal's householdPercentage, in percent (lines 950-951)
householdPercentage(hh) == IF hh.memberCount >= 7 THEN 35 ELSE 30

\* Math.ceil(qty * percent / 100)
CeilPercent(qty, percent) == (qty * percent + 99) \div 100

\* the percentage taken of what remains instead of the original quantity
maxAllowedOfRemaining(remainingQty, originalQty, percent) ==
    IF remainingQty <= 3 THEN remainingQty
    ELSE Max(1, CeilPercent(remainingQty, percent))

\* lines 281-288
maxAllowedForThisDonation(remainingQty, originalQty, percent) ==
    IF remainingQty <= 3 THEN remainingQty
    ELSE Max(1, CeilPercent(originalQty, percent))

\* lines 258: donations.reduce(...)
RECURSIVE totalAvailable(_)
totalAvailable(list) ==
    IF list = <<>> THEN 0
    ELSE totalAvailable(Tail(list))
         + ParseOr(Head(list).originalQuantity, Head(list).quantity)

\* the cap without its floor of 5
maxDailyPickupNoFloor(list) == (totalAvailable(list) * 3) \div 10

\* line 259
maxDailyPickup(list) == Max(5, (totalAvailable(list) * 3) \div 10)

\* the maxDailyPickup prop the page hands to ApplicationModal, line 695
RECURSIVE modalTotal(_)
modalTotal(list) ==
    IF list = <<>> THEN 0
    ELSE modalTotal(Tail(list))
         + (IF Head(list).originalQuantity # 0 THEN Head(list).originalQuantity
            ELSE OrElse(Head(list).quantity, 0))

modalMaxDailyPickup(list) == (modalTotal(list) * 3) \div 10

\* ----------------------------------------------------------------- the modal
\* maxForDonation of the modal, lines 948-960 and 1015-1024
maxForDonation(donation, hh) ==
    IF donation.remainingQuantity <= 3 THEN donation.remainingQuantity
    ELSE Max(1, CeilPercent(ParseOr(donation.originalQuantity, donation.quantity),
                            householdPercentage(hh)))

\* the Submit button's disabled attribute, lines 1014-1027
SubmitDisabled(c) ==
    LET donation == selectedDonation[c]
    IN  \/ applicationQuantity[c] > donation.remainingQuantity
        \/ applicationQuantity[c] > maxForDonation(donation, household[c])
        \/ dailyPickupCount[c] + applicationQuantity[c] > modalMaxDailyPickup(donations[c])

\* EnhancedDonationCard: the Apply button is rendered, lines 732-734 and 834
householdApplied(c, donation) ==
    \E i \in 1..Len(userApplications[c]) : userApplications[c][i].donationId = donation.id

canApply(c, donation) ==
    /\ donation.status \in {"available", "partially_claimed"}
    /\ donation.donorId # Uid(c)

\* lines 209-237, reached through the card's Apply button
handleApplyForDonation(c, i) ==
    LET donation == filteredDonations[c][i]
    IN  /\ pc[c] = "ready"
        /\ ~showApplicationModal[c]
        /\ canApply(c, donation) /\ ~householdApplied(c, donation)
        /\ IF donation.donorId = Uid(c)
             THEN /\ notification' = [notification EXCEPT ![c] = "own_donation"]
                  /\ UNCHANGED modalVars
             ELSE /\ selectedDonation' = [selectedDonation EXCEPT ![c] = donation]
                  /\ applicationQuantity' = [applicationQuantity EXCEPT ![c] = 1]
                  /\ showApplicationModal' = [showApplicationModal EXCEPT ![c] = TRUE]
                  /\ UNCHANGED notification
        /\ UNCHANGED <<storeVars, household, donations, filteredDonations,
                       userApplications, dailyPickupCount, pc, applicationData,
                       clockVars, filters>>

\* the Apply button of one of the cards listed, lines 564-568
ApplyClick(c) == \E i \in 1..Len(filteredDonations[c]) : handleApplyForDonation(c, i)

\* the "-" button, line 939
StepperMinus(c) ==
    /\ pc[c] = "ready"
    /\ showApplicationModal[c]
    /\ applicationQuantity' =
         [applicationQuantity EXCEPT ![c] = Max(1, applicationQuantity[c] - 1)]
    /\ UNCHANGED <<storeVars, household, donations, filteredDonations, userApplications,
                   dailyPickupCount, showApplicationModal, selectedDonation, pc,
                   applicationData, notification, clockVars, filters>>

\* the value the "+" button sets, lines 947-967
stepperPlus(donation, hh, quantity, maxDaily, currentDailyCount) ==
    Min(Min(donation.remainingQuantity, maxForDonation(donation, hh)),
        Min(maxDaily - currentDailyCount, quantity + 1))

StepperPlus(c) ==
    /\ pc[c] = "ready"
    /\ showApplicationModal[c]
    /\ applicationQuantity' =
         [applicationQuantity EXCEPT ![c] =
            stepperPlus(selectedDonation[c], household[c], applicationQuantity[c],
                        modalMaxDailyPickup(donations[c]), dailyPickupCount[c])]
    /\ UNCHANGED <<storeVars, household, donations, filteredDonations, userApplications,
                   dailyPickupCount, showApplicationModal, selectedDonation, pc,
                   applicationData, notification, clockVars, filters>>

\* ------------------------------------------------------- submitApplication
\* lines 276-277
remainingQty(donation) == ParseOr(donation.remainingQuantity, donation.quantity)
originalQty(donation) == ParseOr(donation.originalQuantity, donation.quantity)

\* lines 267-269
existingApplication(apps, donation) ==
    \E i \in 1..Len(apps) : apps[i].donationId = donation.id

\* the checks with the duplicate check made before the daily limit
rejectionDuplicateFirst(uid, hh, donation, quantity, list, apps, dailyCount) ==
    IF donation.donorId = uid THEN "own_donation"
    ELSE IF existingApplication(apps, donation) THEN "already_applied"
    ELSE IF dailyCount + quantity > maxDailyPickup(list) THEN "daily_limit"
    ELSE IF quantity > remainingQty(donation) THEN "not_enough"
    ELSE IF quantity > maxAllowedForThisDonation(remainingQty(donation),
                                                 originalQty(donation),
                                                 getMaxDonationPercentage(hh))
      THEN "max_per_donation"
    ELSE "ok"

\* the checks without the failsafe on the donor's own donation
rejectionNoFailsafe(uid, hh, donation, quantity, list, apps, dailyCount) ==
    IF dailyCount + quantity > maxDailyPickup(list) THEN "daily_limit"
    ELSE IF existingApplication(apps, donation) THEN "already_applied"
    ELSE IF quantity > remainingQty(donation) THEN "not_enough"
    ELSE IF quantity > maxAllowedForThisDonation(remainingQty(donation),
                                                 originalQty(donation),
                                                 getMaxDonationPercentage(hh))
      THEN "max_per_donation"
    ELSE "ok"

\* The checks of submitApplication in the order the code makes them, lines 245-299:
\* the first failing one is reported, "ok" when all pass.
rejection(uid, hh, donation, quantity, list, apps, dailyCount) ==
    IF donation.donorId = uid THEN "own_donation"
    ELSE IF dailyCount + quantity > maxDailyPickup(list) THEN "daily_limit"
    ELSE IF existingApplication(apps, donation) THEN "already_applied"
    ELSE IF quantity > remainingQty(donation) THEN "not_enough"
    ELSE IF quantity > maxAllowedForThisDonation(remainingQty(donation),
                                                 originalQty(donation),
                                                 getMaxDonationPercentage(hh))
      THEN "max_per_donation"
    ELSE "ok"

\* lines 302-319
makeApplicationData(uid, hh, donation, quantity, today) ==
    [donationId |-> donation.id,
     applicantId |-> uid,
     householdId |-> hh.id,
     quantity |-> quantity,
     applicationDate |-> today,
     status |-> "approved"]

\* line 322
newRemainingQuantity(donation, quantity) == Max(0, remainingQty(donation) - quantity)

\* lines 323-329
newStatus(donation, quantity) ==
    IF newRemainingQuantity(donation, quantity) = 0 THEN "fully_booked"
    ELSE IF newRemainingQuantity(donation, quantity) < originalQty(donation)
      THEN "partially_claimed"
    ELSE donation.status

\* arrayUnion with the entries compared without their appliedAt
arrayUnionWithoutTime(arr, e) ==
    IF \E i \in 1..Len(arr) : [arr[i] EXCEPT !.appliedAt = e.appliedAt] = e
      THEN arr ELSE Append(arr, e)

\* arrayUnion: the element is added unless an equal one is there
arrayUnion(arr, e) ==
    IF \E i \in 1..Len(arr) : arr[i] = e THEN arr ELSE Append(arr, e)

\* the document after updateDoc, lines 331-345
updatedDonation(data, uid, hh, donation, quantity, appliedAt) ==
    [data EXCEPT
       !.applicants = arrayUnion(@, [applicantId |-> uid,
                                     householdId |-> hh.id,
                                     quantity |-> quantity,
                                     appliedAt |-> appliedAt,
                                     status |-> "approved"]),
       !.remainingQuantity = <<newRemainingQuantity(donation, quantity)>>,
       !.status = newStatus(donation, quantity)]

\* submitApplication with updateDoc sent before the checks are looked at
submitEffectsWriteFirst(c, outcome) ==
    LET donation == selectedDonation[c]
        quantity == applicationQuantity[c]
        reason == rejection(Uid(c), household[c], donation, quantity, donations[c],
                            userApplications[c], dailyPickupCount[c])
        written == [donationsCollection EXCEPT
                      ![donation.id] = updatedDonation(@, Uid(c), household[c],
                                                       donation, quantity, writes + 1)]
    IN  /\ pc[c] = "ready"
        /\ donation.id # 0
        /\ writes < MaxWrites
        /\ IF reason # "ok"
             THEN /\ outcome = reason
                  /\ showApplicationModal' =
                       [showApplicationModal EXCEPT
                          ![c] = IF reason = "own_donation" THEN FALSE ELSE @]
                  /\ donationsCollection' = written
                  /\ writes' = writes + 1
                  /\ UNCHANGED <<applicationsCollection, pc, applicationData>>
             ELSE \/ /\ outcome = "awaiting"
                     /\ donationsCollection' = written
                     /\ writes' = writes + 1
                     /\ applicationData' =
                          [applicationData EXCEPT
                             ![c] = makeApplicationData(Uid(c), household[c], donation,
                                                        quantity, isoDate(now))]
                     /\ pc' = [pc EXCEPT ![c] = "addDoc"]
                     /\ donationsListener(c, donationsCollection')
                     /\ UNCHANGED <<applicationsCollection, showApplicationModal>>
                  \/ /\ outcome = "failed"
                     /\ UNCHANGED <<storeVars, pc, applicationData, showApplicationModal,
                                    donations, filteredDonations>>
        /\ IF reason # "ok" THEN UNCHANGED <<donations, filteredDonations>> ELSE TRUE
        /\ UNCHANGED <<household, userApplications, dailyPickupCount,
                       selectedDonation, applicationQuantity, clockVars, filters>>

\* submitApplication up to the end of its first await (updateDoc), lines 239-345,
\* but for its toast: a rejection returns with the modal left open, a storage
\* failure is caught at 357, and outcome is what showError is called with.
\* A write raises the writer's own listeners before its promise resolves, so the
\* writer's list is refreshed with the write; other clients hear of it later.
submitEffects(c, outcome) ==
    LET donation == selectedDonation[c]
        quantity == applicationQuantity[c]
        reason == rejection(Uid(c), household[c], donation, quantity, donations[c],
                            userApplications[c], dailyPickupCount[c])
    IN  /\ pc[c] = "ready"
        /\ donation.id # 0
        /\ writes < MaxWrites
        /\ IF reason # "ok"
             THEN /\ outcome = reason
                  /\ showApplicationModal' =
                       [showApplicationModal EXCEPT
                          ![c] = IF reason = "own_donation" THEN FALSE ELSE @]
                  /\ UNCHANGED <<storeVars, pc, applicationData>>
             ELSE \/ /\ outcome = "awaiting"
                     /\ donationsCollection' =
                          [donationsCollection EXCEPT
                             ![donation.id] = updatedDonation(@, Uid(c), household[c],
                                                              donation, quantity, writes + 1)]
                     /\ writes' = writes + 1
                     /\ applicationData' =
                          [applicationData EXCEPT
                             ![c] = makeApplicationData(Uid(c), household[c], donation,
                                                        quantity, isoDate(now))]
                     /\ pc' = [pc EXCEPT ![c] = "addDoc"]
                     /\ donationsListener(c, donationsCollection')
                     /\ UNCHANGED <<applicationsCollection, showApplicationModal>>
                  \/ /\ outcome = "failed"
                     /\ UNCHANGED <<storeVars, pc, applicationData, showApplicationModal,
                                    donations, filteredDonations>>
        /\ IF reason # "ok" THEN UNCHANGED <<donations, filteredDonations>> ELSE TRUE
        /\ UNCHANGED <<household, userApplications, dailyPickupCount,
                       selectedDonation, applicationQuantity, clockVars, filters>>

Outcomes ==
    {"own_donation", "daily_limit", "already_applied", "not_enough", "max_per_donation",
     "awaiting", "failed"}

\* submitApplication with its toast
submitApplication(c) ==
    \E outcome \in Outcomes :
        /\ submitEffects(c, outcome)
        /\ notification' = [notification EXCEPT ![c] = outcome]

\* The Submit button, enabled: onClick={onSubmit}, lines 1012-1013.  The page does
\* not keep the toasts: they are transient and nothing of the page reads them.
SubmitClick(c) ==
    /\ showApplicationModal[c]
    /\ ~SubmitDisabled(c)
    /\ \E outcome \in Outcomes : submitEffects(c, outcome)
    /\ UNCHANGED notification

\* the continuation after updateDoc: addDoc succeeded (lines 348-355) with
\* outcome "success", or threw (the catch of lines 357-381) with "failed"
addDocEffects(c, outcome) ==
    /\ pc[c] = "addDoc"
    /\ pc' = [pc EXCEPT ![c] = "ready"]
    /\ applicationData' = [applicationData EXCEPT ![c] = NoData]
    /\ IF outcome = "success"
         THEN /\ applicationsCollection' =
                   Append(applicationsCollection, applicationData[c])
              /\ showApplicationModal' = [showApplicationModal EXCEPT ![c] = FALSE]
              /\ applicationQuantity' = [applicationQuantity EXCEPT ![c] = 1]
              /\ selectedDonation' = [selectedDonation EXCEPT ![c] = NoDonation]
              /\ applicationsListener(c, applicationsCollection')
         ELSE UNCHANGED <<applicationsCollection, modalVars, userApplications,
                          dailyPickupCount>>
    /\ UNCHANGED <<donationsCollection, writes, household, donations, filteredDonations,
                   clockVars, filters>>

AddDocOk(c) == addDocEffects(c, "success") /\ UNCHANGED notification
AddDocFail(c) == addDocEffects(c, "failed") /\ UNCHANGED notification

\* ------------------------------------------------------------------ the page
\* a donation as its donor stored it
newDonation(donor, qty) ==
    [foodItem |-> "rice",
     donorId |-> donor,
     createdAt |-> 0,
     expirationDate |-> <<>>,
     originalQuantity |-> <<qty>>,
     quantity |-> <<qty>>,
     remainingQuantity |-> <<qty>>,
     status |-> "available",
     applicants |-> <<>>]

\* React state after the first render, lines 46-59
PageInit ==
    /\ donations = [c \in Clients |-> <<>>]
    /\ filteredDonations = [c \in Clients |-> <<>>]
    /\ filters = [c \in Clients |-> defaultFilters]
    /\ userApplications = [c \in Clients |-> <<>>]
    /\ dailyPickupCount = [c \in Clients |-> 0]
    /\ showApplicationModal = [c \in Clients |-> FALSE]
    /\ selectedDonation = [c \in Clients |-> NoDonation]
    /\ applicationQuantity = [c \in Clients |-> 1]
    /\ pc = [c \in Clients |-> "ready"]
    /\ applicationData = [c \in Clients |-> NoData]
    /\ notification = [c \in Clients |-> "none"]
    /\ effectToday = [c \in Clients |-> isoDate(now)]

Init ==
    /\ now = 1
    /\ donationsCollection \in
         {[d \in DonIds |-> newDonation(OtherDonor, PostedQuantity(d))]}
    /\ applicationsCollection = <<>>
    /\ writes = 0
    /\ household \in {[c \in Clients |-> IF c = 1 THEN RegularHousehold ELSE h] :
                        h \in {RegularHousehold, LargeHousehold}}
    /\ PageInit

Next ==
    \E c \in Clients :
        \/ DonationsSnapshot(c)
        \/ AppsSnapshot(c)
        \/ ApplyClick(c)
        \/ StepperMinus(c)
        \/ StepperPlus(c)
        \/ SubmitClick(c)
        \/ AddDocOk(c)
        \/ AddDocFail(c)

Spec == Init /\ [][Next]_vars

\* ------------------------------------------------- the validation, on its own
\* submitApplication and its continuations, each with its toast: the handler as
\* a function of the React state it reads.
addDocResolved(c) ==
    /\ addDocEffects(c, "success")
    /\ notification' = [notification EXCEPT ![c] = "success"]

addDocRejected(c) ==
    /\ addDocEffects(c, "failed")
    /\ notification' = [notification EXCEPT ![c] = "failed"]

\* the inputs drawn
SelectedOriginals == {4, 10, 20}
OtherOriginals == {6, 20}
MemberCounts == {3, 6, 7, 8}
Quantities == -1..8
PriorQuantities == {1, 4, 6}

\* what is left of a donation whose card still shows the Apply button
RemainingOf(original) == {r \in 1..original : r <= 4 \/ r = original}

\* a donation some of which has been claimed
claimedDonation(donor, original, remaining, applicants) ==
    [foodItem |-> "rice",
     donorId |-> donor,
     createdAt |-> 0,
     expirationDate |-> <<>>,
     originalQuantity |-> <<original>>,
     quantity |-> <<original>>,
     remainingQuantity |-> <<remaining>>,
     status |-> IF remaining = 0 THEN "fully_booked"
                ELSE IF remaining < original THEN "partially_claimed"
                ELSE "available",
     applicants |-> applicants]

\* the statuses an earlier Application may have by now: as submitApplication
\* wrote it, or rejected since
PriorStatuses == {"approved", "rejected"}

\* the applications the household made earlier in the day: none or one, which
\* may have been rejected since
PriorApplications(uid, hh) ==
    {<<>>}
    \cup {<<makeApplicationData(uid, hh, [id |-> d], k, Today)>> :
            d \in DonIds, k \in PriorQuantities}
    \cup {<<[makeApplicationData(uid, hh, [id |-> d], 1, Today)
              EXCEPT !.status = st]>> :
            d \in DonIds, st \in PriorStatuses \ {"approved"}}

RECURSIVE applicantsOf(_, _)
applicantsOf(apps, d) ==
    IF apps = <<>> THEN <<>>
    ELSE (IF apps[1].donationId = d /\ apps[1].status # "rejected"
            THEN <<[applicantId |-> apps[1].applicantId,
                    householdId |-> apps[1].householdId,
                    quantity |-> apps[1].quantity,
                    appliedAt |-> 0,
                    status |-> "approved"]>>
            ELSE <<>>) \o applicantsOf(Tail(apps), d)

\* what the applications apps took of donation d; a rejected one took nothing
RECURSIVE quantityOn(_, _)
quantityOn(apps, d) ==
    IF apps = <<>> THEN 0
    ELSE (IF apps[1].donationId = d /\ apps[1].status # "rejected"
            THEN apps[1].quantity ELSE 0)
         + quantityOn(Tail(apps), d)

\* Client 1 has the modal open on donation i of a pool, with any quantity in it;
\* the other donations of the pool were posted with the quantity other.  The
\* donation may be the client's own; the client has then applied for nothing yet.
\* What the household took earlier is part of what the donations have lost.
EngineInit ==
    \E i \in DonIds, original \in SelectedOriginals, other \in OtherOriginals,
       n \in MemberCounts, donor \in {OtherDonor, Uid(1)}, quantity \in Quantities :
      \E remaining \in RemainingOf(original),
         prior \in PriorApplications(Uid(1), HouseholdOfSize(1, n)) :
        LET coll == [d \in DonIds |->
                       IF d = i
                         THEN claimedDonation(donor, original, remaining,
                                              applicantsOf(prior, d))
                         ELSE claimedDonation(OtherDonor, other,
                                              other - quantityOn(prior, d),
                                              applicantsOf(prior, d))]
        IN  /\ now = 1
            /\ quantityOn(prior, i) <= original - remaining
            /\ donor = Uid(1) => prior = <<>>
            /\ donationsCollection = coll
            /\ applicationsCollection = prior
            /\ writes = 0
            /\ household = [c \in Clients |->
                              IF c = 1 THEN HouseholdOfSize(1, n) ELSE RegularHousehold]
            /\ donations = [c \in Clients |->
                              IF c = 1 THEN donationsData(donationsCollection) ELSE <<>>]
            /\ filteredDonations = donations
            /\ filters = [c \in Clients |-> defaultFilters]
            /\ userApplications =
                 [c \in Clients |->
                    IF c = 1 THEN householdApplications(prior, 1, Len(prior)) ELSE <<>>]
            /\ dailyPickupCount =
                 [c \in Clients |->
                    IF c = 1
                      THEN totalPickup(householdApplications(prior, 1, Len(prior)), Today)
                      ELSE 0]
            /\ showApplicationModal = [c \in Clients |-> c = 1]
            /\ selectedDonation =
                 [c \in Clients |->
                    IF c = 1 THEN deriveView(i, donationsCollection[i]) ELSE NoDonation]
            /\ applicationQuantity = [c \in Clients |-> IF c = 1 THEN quantity ELSE 1]
            /\ pc = [c \in Clients |-> "ready"]
            /\ applicationData = [c \in Clients |-> NoData]
            /\ notification = [c \in Clients |-> "none"]
            /\ effectToday = [c \in Clients |-> Today]

EngineNext ==
    \E c \in Clients :
        \/ submitApplication(c)
        \/ addDocResolved(c)
        \/ addDocRejected(c)

EngineSpec == EngineInit /\ [][EngineNext]_vars

\* --------------------------------------------- the donations listener, on its own
\* the values a stored document may hold; "" is a status that is not there
StoredOriginals == {<<>>, <<0>>, <<4>>}
StoredQuantities == {<<>>, <<4>>, <<6>>}
StoredRemainings == {<<>>, <<0>>, <<2>>, <<4>>, <<6>>}
StoredStatuses == {"", "available", "partially_claimed", "fully_booked", "completed"}
StoredFoodItems == {"rice", ""}
StoredCreatedAts == 0..1
StoredExpirations(t) == {<<>>, <<t - 1>>, <<t + 4>>, <<t + 5>>, <<t + 6>>}

\* documents that differ in what the quantities and the status are derived from
quantityRecords ==
    {[newDonation(OtherDonor, 4) EXCEPT !.originalQuantity = o, !.quantity = q,
                                       !.remainingQuantity = r, !.status = st] :
       o \in StoredOriginals, q \in StoredQuantities, r \in StoredRemainings,
       st \in StoredStatuses}

\* documents that differ in what the list is filtered and ordered by
listingRecords(t) ==
    {[newDonation(OtherDonor, 4) EXCEPT !.foodItem = f, !.createdAt = at,
                                       !.expirationDate = e] :
       f \in StoredFoodItems, at \in StoredCreatedAts, e \in StoredExpirations(t)}

\* Any documents are in the collection when the page is opened.
ViewInit ==
    /\ now \in 1..MaxDay
    /\ \/ donationsCollection \in
            {[d \in DonIds |-> IF d = 1 THEN first
                               ELSE newDonation(OtherDonor, PostedQuantity(d))] :
               first \in quantityRecords}
       \/ donationsCollection \in [DonIds -> listingRecords(now)]
    /\ applicationsCollection = <<>>
    /\ writes = 0
    /\ household = [c \in Clients |-> RegularHousehold]
    /\ PageInit

ViewNext == \E c \in Clients : DonationsSnapshot(c)

ViewSpec == ViewInit /\ [][ViewNext]_vars

\* ------------------------------------------ the validation, as the days pass
\* The calendar day changes while the page stays open: new Date() moves on, the
\* today of the applications effect (line 139) stays as captured, since the effect
\* runs again only when currentUser or household change.
NextDay ==
    /\ now < MaxDay
    /\ now' = now + 1
    /\ UNCHANGED <<storeVars, household, donations, userApplications, dailyPickupCount,
                   modalVars, pc, applicationData, notification, effectToday,
                   filters, filteredDonations>>

DayNext ==
    \/ NextDay
    \/ \E c \in Clients :
          \/ AppsSnapshot(c)
          \/ submitApplication(c)
          \/ addDocResolved(c)
          \/ addDocRejected(c)

DaySpec == EngineInit /\ [][DayNext]_vars

\* ------------------------------------------------------------- the filters
\* text.toLowerCase().includes(searchTerm): the search terms drawn are whole
\* lower-case words, so a text of one word includes a term when it is that word.
includes(text, searchTerm) == text = searchTerm

\* the search filter of handleFilterChange, lines 179-187; the description and the
\* location of the documents hold none of the terms searched for
matchesSearch(donation, searchTerm) == includes(donation.foodItem, searchTerm)

\* the status filter of handleFilterChange, lines 190-200
matchesStatus(donation, status) ==
    IF status = "available" THEN donation.status \in {"available", "partially_claimed"}
    ELSE donation.status = status

\* filtered, as handleFilterChange computes it from donations, lines 177-200
filterDonations(list, newFilters) ==
    LET bySearch == IF newFilters.search # ""
                      THEN SelectSeq(list, LAMBDA d : matchesSearch(d, newFilters.search))
                      ELSE list
    IN  IF newFilters.status # "all"
          THEN SelectSeq(bySearch, LAMBDA d : matchesStatus(d, newFilters.status))
          ELSE bySearch

\* lines 174-207, called by SearchFilters with the new filters
handleFilterChange(c, newFilters) ==
    /\ filters' = [filters EXCEPT ![c] = newFilters]
    /\ filteredDonations' =
         [filteredDonations EXCEPT ![c] = filterDonations(donations[c], newFilters)]
    /\ UNCHANGED <<storeVars, household, donations, userApplications, dailyPickupCount,
                   modalVars, pc, applicationData, notification, clockVars>>

\* the "Clear Filters" button of the empty list, lines 562, 595 and 600-604
ClearFilters(c) ==
    /\ Len(filteredDonations[c]) = 0
    /\ Len(donations[c]) # 0
    /\ filters' = [filters EXCEPT ![c] = [@ EXCEPT !.search = "", !.status = "available"]]
    /\ UNCHANGED <<storeVars, household, donations, filteredDonations, userApplications,
                   dailyPickupCount, modalVars, pc, applicationData, notification,
                   clockVars>>

\* the inputs drawn
SearchTerms == {"", "rice"}
StatusFilters == {"all", "available", "fully_booked"}
FilterChoices == [search : SearchTerms, status : StatusFilters]
FoodItems == {"rice", "beans"}
\* originalQuantity 4 with nothing, 1 or all of it left
ListedRemainings == {0, 1, 4}

\* The page over stored donations of every status and either food item: the
\* listener, the filters and the Clear Filters button.
FilterInit ==
    /\ now = 1
    /\ donationsCollection \in
         [DonIds -> {[claimedDonation(OtherDonor, 4, r, <<>>)
                        EXCEPT !.foodItem = f] :
                       r \in ListedRemainings, f \in FoodItems}]
    /\ applicationsCollection = <<>>
    /\ writes = 0
    /\ household = [c \in Clients |-> RegularHousehold]
    /\ PageInit

FilterNext ==
    \E c \in Clients :
        \/ DonationsSnapshot(c)
        \/ \E newFilters \in FilterChoices : handleFilterChange(c, newFilters)
        \/ ClearFilters(c)

FilterSpec == FilterInit /\ [][FilterNext]_vars

\* ================================================================ the claims
RECURSIVE SumQuantity(_)
SumQuantity(seq) ==
    IF seq = <<>> THEN 0 ELSE seq[1].quantity + SumQuantity(Tail(seq))

RECURSIVE SelectSeq2(_, _, _)
SelectSeq2(seq, key, val) ==
    IF seq = <<>> THEN <<>>
    ELSE IF seq[1][key] = val THEN <<seq[1]>> \o SelectSeq2(Tail(seq), key, val)
    ELSE SelectSeq2(Tail(seq), key, val)

StoredOriginal(d) == donationsCollection[d].originalQuantity[1]
StoredRemaining(d) ==
    IF donationsCollection[d].remainingQuantity = <<>> THEN StoredOriginal(d)
    ELSE donationsCollection[d].remainingQuantity[1]
HouseholdIds == {household[c].id : c \in Clients}
Quiescent == \A c \in Clients : pc[c] = "ready"

\* C1: every stored donation has 0 <= remainingQuantity <= originalQuantity, after
\* any sequence of commits made through the modal.
C1_RemainingWithinOriginal ==
    \A d \in DonIds : 0 <= StoredRemaining(d) /\ StoredRemaining(d) <= StoredOriginal(d)

\* C2: no household has two non-rejected Application records for the same donation.
C2_OneApplicationPerHouseholdAndDonation ==
    \A i, j \in 1..Len(applicationsCollection) :
        (/\ i < j
         /\ applicationsCollection[i].householdId = applicationsCollection[j].householdId
         /\ applicationsCollection[i].donationId = applicationsCollection[j].donationId)
        => \/ applicationsCollection[i].status = "rejected"
           \/ applicationsCollection[j].status = "rejected"

\* C3: when the claims recorded on a donation are by different households, none of
\* their decrements is lost: originalQuantity - remainingQuantity is the sum of the
\* quantities of the donation's applicant entries.
C3_NoLostDecrement ==
    \A d \in DonIds :
        LET applicants == donationsCollection[d].applicants
        IN  (\A i, j \in 1..Len(applicants) :
                i # j => applicants[i].householdId # applicants[j].householdId)
            => StoredOriginal(d) - StoredRemaining(d) = SumQuantity(applicants)

\* C4: a commit is all-or-nothing: once no submitApplication is under way, every
\* donation has as many applicant entries as the ledger has Application records
\* for it (no donation update without its record, no record without the update).
C4_CommitAllOrNothing ==
    Quiescent =>
        \A d \in DonIds :
            Len(donationsCollection[d].applicants)
              = Len(SelectSeq2(applicationsCollection, "donationId", d))

\* C5: every commit's quantity is at most the donation's stored remainingQuantity
\* immediately before the commit's write.
C5_ValidatedAgainstStoredState ==
    [][\A c \in Clients :
          (pc[c] = "ready" /\ pc'[c] = "addDoc")
          => applicationQuantity[c] <= StoredRemaining(selectedDonation[c].id)]_vars

\* C6: every stored donation has status fully_booked iff remainingQuantity = 0,
\* available iff remainingQuantity = originalQuantity and partially_claimed iff
\* 0 < remainingQuantity < originalQuantity.
C6_StatusFollowsQuantity ==
    \A d \in DonIds :
        LET status == donationsCollection[d].status
            remaining == StoredRemaining(d)
        IN  /\ status = "fully_booked" <=> remaining = 0
            /\ status = "available" <=> remaining = StoredOriginal(d)
            /\ status = "partially_claimed"
                 <=> (0 < remaining /\ remaining < StoredOriginal(d))

\* the daily cap of the claims, on the stored pool
RECURSIVE SumOriginal(_)
SumOriginal(ds) ==
    IF ds = {} THEN 0
    ELSE LET d == CHOOSE x \in ds : TRUE
         IN  StoredOriginal(d) + SumOriginal(ds \ {d})

FloorOf(num, den) ==
    CHOOSE k \in 0..((num \div den) + 1) : den * k <= num /\ num < den * (k + 1)
DailyCapOf(sum) == Max(5, FloorOf(3 * sum, 10))

ConsumedToday(h) ==
    LET mine == SelectSeq2(applicationsCollection, "householdId", h)
        today == SelectSeq2(mine, "applicationDate", Today)
    IN  SumQuantity(SelectSeq2(today, "status", "approved"))
        + SumQuantity(SelectSeq2(today, "status", "completed"))

\* C7: the approved or completed Application quantities of a household for a day
\* never sum to more than the daily cap of the pool.
C7_DailyCapHolds ==
    \A h \in HouseholdIds : ConsumedToday(h) <= DailyCapOf(SumOriginal(DonIds))

\* ------------------------------------------------ the claims on the validation
\* the rules of a claim request, stated on what submitApplication reads
CeilOf(num, den) ==
    CHOOSE k \in 0..((num \div den) + 1) : den * k >= num /\ den * (k - 1) < num
PercentOf(memberCount) == IF memberCount >= 7 THEN 35 ELSE 30
ClaimLimit(remaining, original, memberCount) ==
    IF remaining <= 3 THEN remaining
    ELSE Max(1, CeilOf(original * PercentOf(memberCount), 100))

RECURSIVE SumListed(_)
SumListed(list) ==
    IF list = <<>> THEN 0 ELSE list[1].originalQuantity + SumListed(Tail(list))

Requested(c) == selectedDonation[c].id # 0
IsDuplicate(c) ==
    \E i \in 1..Len(userApplications[c]) :
        userApplications[c][i].donationId = selectedDonation[c].id
IsInsufficient(c) == applicationQuantity[c] > selectedDonation[c].remainingQuantity
LimitOf(c) ==
    ClaimLimit(selectedDonation[c].remainingQuantity, selectedDonation[c].originalQuantity,
               household[c].memberCount)
IsOverLimit(c) == applicationQuantity[c] > LimitOf(c)
IsOverDaily(c) ==
    dailyPickupCount[c] + applicationQuantity[c] > DailyCapOf(SumListed(donations[c]))

RuleRejections == {"daily_limit", "already_applied", "not_enough", "max_per_donation"}
\* the toasts after which the request is still in the React state
Passed == {"awaiting", "failed"}

\* C8 as claimed: the rejection reported is that of the first failing check in the
\* order duplicate, insufficient remaining quantity, per-donation cap, daily cap.
C8_ClaimedOrder ==
    \A c \in Clients :
        (Requested(c) /\ notification[c] \in RuleRejections) =>
            notification[c] =
                IF IsDuplicate(c) THEN "already_applied"
                ELSE IF IsInsufficient(c) THEN "not_enough"
                ELSE IF IsOverLimit(c) THEN "max_per_donation"
                ELSE "daily_limit"

\* C8 amended: the rejection reported is that of the first failing check in the
\* order daily cap, duplicate, insufficient remaining quantity, per-donation cap,
\* and a request goes on to the writes only when none of the four fails.
C8_CodeOrder ==
    \A c \in Clients :
        Requested(c) =>
            /\ notification[c] \in RuleRejections =>
                 notification[c] =
                     IF IsOverDaily(c) THEN "daily_limit"
                     ELSE IF IsDuplicate(c) THEN "already_applied"
                     ELSE IF IsInsufficient(c) THEN "not_enough"
                     ELSE "max_per_donation"
            /\ notification[c] \in RuleRejections =>
                 (IsOverDaily(c) \/ IsDuplicate(c) \/ IsInsufficient(c) \/ IsOverLimit(c))
            /\ notification[c] \in Passed =>
                 ~(IsOverDaily(c) \/ IsDuplicate(c) \/ IsInsufficient(c) \/ IsOverLimit(c))

\* a request that breaks the daily cap and is a duplicate is reported as over the cap
C8_Witness ==
    \E c \in Clients :
        /\ Requested(c) /\ notification[c] = "daily_limit"
        /\ IsDuplicate(c) /\ IsOverLimit(c)

\* C9: the per-donation limit submitApplication enforces, and the one the modal
\* computes, is remainingQuantity when remainingQuantity <= 3 and otherwise
\* max(1, ceil(originalQuantity * p)), p = 0.35 for memberCount >= 7, else 0.30.
C9_PerDonationLimit ==
    \A c \in Clients :
        Requested(c) =>
            /\ maxForDonation(selectedDonation[c], household[c]) = LimitOf(c)
            /\ notification[c] = "max_per_donation" => IsOverLimit(c)
            /\ notification[c] \in Passed => ~IsOverLimit(c)
            /\ (notification[c] \in {"not_enough", "max_per_donation"} \cup Passed
                /\ ~IsInsufficient(c) /\ IsOverLimit(c))
                 => notification[c] = "max_per_donation"

\* a request of exactly the limit, computed on an original above what remains, passes
C9_Witness ==
    \E c \in Clients :
        /\ Requested(c) /\ notification[c] = "awaiting"
        /\ selectedDonation[c].remainingQuantity > 3
        /\ selectedDonation[c].remainingQuantity < selectedDonation[c].originalQuantity
        /\ applicationQuantity[c] = LimitOf(c)
        /\ applicationQuantity[c]
             > ClaimLimit(selectedDonation[c].remainingQuantity,
                          selectedDonation[c].remainingQuantity, household[c].memberCount)

\* C10: the daily cap submitApplication enforces is
\* max(5, floor(0.30 * sum of originalQuantity over the listed donations)).
C10_DailyCap ==
    \A c \in Clients :
        Requested(c) =>
            /\ maxDailyPickup(donations[c]) = DailyCapOf(SumListed(donations[c]))
            /\ maxDailyPickup(donations[c]) >= 5
            /\ notification[c] = "daily_limit" => IsOverDaily(c)
            /\ notification[c] \in (RuleRejections \ {"daily_limit"}) \cup Passed
                 => ~IsOverDaily(c)

\* with a pool of 10 the cap is 5: 4 consumed and 2 requested is over it, though
\* the donation has the 2 and its limit allows them
C10_Witness ==
    \E c \in Clients :
        /\ Requested(c) /\ notification[c] = "daily_limit"
        /\ ~IsInsufficient(c) /\ ~IsOverLimit(c) /\ ~IsDuplicate(c)
        /\ SumListed(donations[c]) = 10
        /\ dailyPickupCount[c] = 4 /\ applicationQuantity[c] = 2

\* ------------------------------------------------ the claims on the quantity
\* C11: every Application record and every applicant entry written by
\* submitApplication has a quantity > 0.
C11_QuantityPositive ==
    /\ \A i \in 1..Len(applicationsCollection) : applicationsCollection[i].quantity > 0
    /\ \A d \in DonIds :
          \A i \in 1..Len(donationsCollection[d].applicants) :
              donationsCollection[d].applicants[i].quantity > 0

\* C12: while the application modal is open, applicationQuantity is within
\* [1, maxClaimable(donation, household)].
C12_StepperWithinBounds ==
    \A c \in Clients :
        (showApplicationModal[c] /\ Requested(c)) =>
            /\ 1 <= applicationQuantity[c]
            /\ applicationQuantity[c] <= LimitOf(c)

\* ---------------------------------------- the claims on who may claim what
\* C13: no Application record and no applicant entry has an applicant who is the
\* donor of its donation.
C13_NoSelfClaim ==
    /\ \A i \in 1..Len(applicationsCollection) :
          applicationsCollection[i].applicantId
            # donationsCollection[applicationsCollection[i].donationId].donorId
    /\ \A d \in DonIds :
          \A i \in 1..Len(donationsCollection[d].applicants) :
              donationsCollection[d].applicants[i].applicantId
                # donationsCollection[d].donorId
    /\ \A c \in Clients :
          pc[c] = "addDoc" =>
              applicationData[c].applicantId
                # donationsCollection[applicationData[c].donationId].donorId

\* the donor submitted a claim on the own donation, of a quantity every rule
\* allows, and was turned away
C13_Witness ==
    \E c \in Clients :
        /\ Requested(c) /\ selectedDonation[c].donorId = Uid(c)
        /\ notification[c] = "own_donation"
        /\ ~showApplicationModal[c]
        /\ ~(IsOverDaily(c) \/ IsDuplicate(c) \/ IsInsufficient(c) \/ IsOverLimit(c))
        /\ applicationQuantity[c] >= 1

\* C14: a claim is rejected as a duplicate only when the household has a
\* non-rejected Application for the donation.
C14_DuplicateIgnoresRejected ==
    \A c \in Clients :
        (Requested(c) /\ notification[c] = "already_applied") =>
            \E i \in 1..Len(userApplications[c]) :
                /\ userApplications[c][i].donationId = selectedDonation[c].id
                /\ userApplications[c][i].status # "rejected"

\* ------------------------------------------------ the claim on the calendar day
ConsumedOn(apps, day) ==
    LET ofDay == SelectSeq2(apps, "applicationDate", day)
    IN  SumQuantity(SelectSeq2(ofDay, "status", "approved"))
        + SumQuantity(SelectSeq2(ofDay, "status", "completed"))

\* C15: the daily consumption a validation uses is the sum of quantity over the
\* household's Applications of the calendar day of the validation with status
\* approved or completed, also after the day has changed with the page open.
C15_ConsumptionOfTheDay ==
    [][\A c \in Clients :
          (pc[c] = "ready" /\ notification'[c] # notification[c]
           /\ notification'[c] # "own_donation")
          => dailyPickupCount[c] = ConsumedOn(userApplications[c], isoDate(now))]_vars

\* --------------------------------------------- the claims on the derived view
\* the views some client lists, each with the document it was derived from
Listed == {<<c, i>> : c \in Clients, i \in 1..NumDonations}
IsListed(ci) == ci[2] <= Len(donations[ci[1]])
ViewOf(ci) == donations[ci[1]][ci[2]]
RawOf(ci) == donationsCollection[ViewOf(ci).id]

\* C16: the view keeps a stored remainingQuantity, 0 included, and takes
\* originalQuantity only when the field is absent; submitApplication reads that
\* same remaining quantity from the donation selected.
C16_RemainingKept ==
    \A ci \in Listed :
        IsListed(ci) =>
            /\ RawOf(ci).remainingQuantity # <<>>
                 => ViewOf(ci).remainingQuantity = RawOf(ci).remainingQuantity[1]
            /\ RawOf(ci).remainingQuantity = <<>>
                 => ViewOf(ci).remainingQuantity = ViewOf(ci).originalQuantity
            /\ remainingQty(ViewOf(ci)) = ViewOf(ci).remainingQuantity

\* C17: the status of the view of a record not completed follows from the view's
\* quantities alone, whatever status is stored.
C17_ViewStatusFromQuantities ==
    \A ci \in Listed :
        (IsListed(ci) /\ RawOf(ci).status # "completed") =>
            LET v == ViewOf(ci)
            IN  /\ v.status = "fully_booked" <=> v.remainingQuantity = 0
                /\ v.status = "partially_claimed"
                     <=> (0 < v.remainingQuantity
                          /\ v.remainingQuantity < v.originalQuantity)
                /\ v.status = "available" <=> v.remainingQuantity = v.originalQuantity

\* the view read as a record: { id, ...data, remainingQuantity, originalQuantity,
\* status, isUrgent }
AsRecord(v) ==
    [foodItem |-> v.foodItem,
     donorId |-> v.donorId,
     createdAt |-> v.createdAt,
     expirationDate |-> v.expirationDate,
     quantity |-> v.quantity,
     originalQuantity |-> <<v.originalQuantity>>,
     remainingQuantity |-> <<v.remainingQuantity>>,
     status |-> v.status]

\* C18: deriving the view of a view gives the view.
C18_DeriveIdempotent ==
    \A ci \in Listed :
        IsListed(ci) => deriveView(ViewOf(ci).id, AsRecord(ViewOf(ci))) = ViewOf(ci)

\* a view in which the derivation filled in the original quantity and the status
C18_Witness ==
    \E ci \in Listed :
        /\ IsListed(ci)
        /\ RawOf(ci).originalQuantity = <<>> /\ RawOf(ci).status = ""
        /\ RawOf(ci).remainingQuantity # <<>>
        /\ ViewOf(ci).remainingQuantity < ViewOf(ci).originalQuantity
        /\ ViewOf(ci).status = "partially_claimed"

\* C19: in a list produced from a snapshot every urgent donation precedes every
\* other, within each group the donations go by createdAt, newest first, and the
\* list holds the records that have a foodItem, each once.
C19_ListOrdered ==
    \A c \in Clients :
        donations[c] # <<>> =>
            /\ \A i, j \in 1..Len(donations[c]) :
                  i < j =>
                    /\ donations[c][j].isUrgent => donations[c][i].isUrgent
                    /\ donations[c][i].isUrgent = donations[c][j].isUrgent
                         => donations[c][i].createdAt >= donations[c][j].createdAt
            /\ {donations[c][i].id : i \in 1..Len(donations[c])}
                 = {d \in DonIds : donationsCollection[d].foodItem # ""}
            /\ Len(donations[c])
                 = Cardinality({d \in DonIds : donationsCollection[d].foodItem # ""})

\* an urgent donation listed before a newer one that is not urgent
C19_Witness ==
    \E c \in Clients :
        /\ Len(donations[c]) >= 2
        /\ donations[c][1].isUrgent /\ ~donations[c][2].isUrgent
        /\ donations[c][1].createdAt < donations[c][2].createdAt

\* C20: isUrgent is true iff there is an expirationDate and it is at most five
\* days after now.
C20_UrgentWithinFiveDays ==
    \A ci \in Listed :
        IsListed(ci) =>
            LET e == RawOf(ci).expirationDate
            IN  /\ e = <<>> => ~ViewOf(ci).isUrgent
                /\ (e # <<>> /\ e[1] - now <= 5) => ViewOf(ci).isUrgent
                /\ (e # <<>> /\ e[1] - now > 5) => ~ViewOf(ci).isUrgent

\* a date five days from now is urgent and one six days from now is not
C20_Witness ==
    \E c \in Clients :
        \E i, j \in 1..Len(donations[c]) :
            /\ donations[c][i].expirationDate = <<now + 5>> /\ donations[c][i].isUrgent
            /\ donations[c][j].expirationDate = <<now + 6>> /\ ~donations[c][j].isUrgent

\* C21: a claim that validation rejects (own donation, duplicate, not enough left,
\* over the limit of the donation, over the daily cap) writes nothing: the
\* donations, with their remainingQuantity, status and applicants, and the
\* applications are after the rejection exactly what they were before it.
Rejections == RuleRejections \cup {"own_donation"}

C21_RejectionWritesNothing ==
    [][\A c \in Clients :
          (notification'[c] \in Rejections /\ notification'[c] # notification[c])
            => UNCHANGED <<donationsCollection, applicationsCollection>>]_vars

\* a rejection of a request made on the state as stored, nothing written since
C21_Witness ==
    \E c \in Clients :
        /\ Requested(c) /\ pc[c] = "ready"
        /\ notification[c] = "max_per_donation"
        /\ writes = 0 /\ applicationsCollection = <<>>
        /\ donationsCollection[selectedDonation[c].id].remainingQuantity
             = <<selectedDonation[c].remainingQuantity>>

\* the donation client c selected has since been written by another client: what
\* is stored is no longer what c's modal validates against
ConflictingWrite(c) ==
    LET stored == donationsCollection[selectedDonation[c].id]
    IN  /\ stored.applicants # <<>>
        /\ stored.applicants[Len(stored.applicants)].applicantId # Uid(c)
        /\ stored.remainingQuantity # <<selectedDonation[c].remainingQuantity>>

StoredApplicants(d) == donationsCollection[d].applicants

IsPrefix(s, t) == Len(s) <= Len(t) /\ SubSeq(t, 1, Len(s)) = s

\* C23: a commit appends exactly one applicant entry to the donation (at its
\* updateDoc) and exactly one Application record (at its addDoc), both with the
\* household and the quantity of the request and the status approved; no step
\* changes or removes an applicant entry or an Application record already stored.
C23_CommitAppendsOnly ==
    [][/\ \A d \in DonIds : IsPrefix(StoredApplicants(d), StoredApplicants(d)')
       /\ IsPrefix(applicationsCollection, applicationsCollection')
       /\ \A c \in Clients :
            /\ (pc[c] = "ready" /\ pc'[c] = "addDoc")
                 => LET d == selectedDonation[c].id
                        e == StoredApplicants(d)'[Len(StoredApplicants(d)')]
                    IN  /\ Len(StoredApplicants(d)') = Len(StoredApplicants(d)) + 1
                        /\ e.applicantId = Uid(c)
                        /\ e.householdId = household[c].id
                        /\ e.quantity = applicationQuantity[c]
                        /\ e.status = "approved"
                        /\ \A o \in DonIds \ {d} :
                             StoredApplicants(o)' = StoredApplicants(o)
                        /\ applicationsCollection' = applicationsCollection
            /\ (pc[c] = "addDoc" /\ pc'[c] = "ready"
                    /\ applicationsCollection' # applicationsCollection)
                 => LET r == applicationsCollection'[Len(applicationsCollection')]
                    IN  /\ Len(applicationsCollection') = Len(applicationsCollection) + 1
                        /\ r.status = "approved"
                        /\ \E i \in 1..Len(StoredApplicants(r.donationId)) :
                             LET e == StoredApplicants(r.donationId)[i]
                             IN  /\ e.applicantId = r.applicantId
                                 /\ e.householdId = r.householdId
                                 /\ e.quantity = r.quantity
                                 /\ e.status = r.status
                        /\ \A d \in DonIds : StoredApplicants(d)' = StoredApplicants(d)]_vars

\* a commit has gone through on a donation and a ledger that held entries before
C23_Witness ==
    \E c \in Clients :
        /\ notification[c] = "success" /\ pc[c] = "ready"
        /\ Len(applicationsCollection) >= 2
        /\ applicationsCollection[Len(applicationsCollection)].householdId = household[c].id
        /\ \E d \in DonIds :
             /\ Len(StoredApplicants(d)) >= 2
             /\ applicationsCollection[Len(applicationsCollection)].donationId = d

\* what submitApplication's quantity checks and daily-cap check make of the request
\* in the modal of client c, lines 257-264 and 280-299
ChecksAccept(c) ==
    LET donation == selectedDonation[c]
        quantity == applicationQuantity[c]
    IN  /\ dailyPickupCount[c] + quantity <= maxDailyPickup(donations[c])
        /\ quantity <= remainingQty(donation)
        /\ quantity <= maxAllowedForThisDonation(remainingQty(donation),
                                                 originalQty(donation),
                                                 getMaxDonationPercentage(household[c]))

\* C24: the daily cap the modal works with (the bound of its stepper and of its
\* Submit button) is the daily cap submitApplication enforces, whatever the pool
\* and the consumption of the day; so for a quantity of 1 or more Submit is enabled
\* exactly when submitApplication's quantity and daily-cap checks accept it.
C24_ModalCapIsEnforcedCap ==
    \A c \in Clients :
        (showApplicationModal[c] /\ Requested(c)) =>
            /\ modalMaxDailyPickup(donations[c]) = maxDailyPickup(donations[c])
            /\ applicationQuantity[c] >= 1 => (~SubmitDisabled(c) <=> ChecksAccept(c))

\* C25: the stored remainingQuantity of a donation never increases from one
\* commit to the next, however the commits of different households interleave;
\* a donation that is fully_booked with nothing remaining stays so.
C25_RemainingNeverIncreases ==
    [][\A d \in DonIds :
          /\ StoredRemaining(d)' <= StoredRemaining(d)
          /\ (donationsCollection[d].status = "fully_booked" /\ StoredRemaining(d) = 0)
               => /\ StoredRemaining(d)' = 0
                  /\ donationsCollection'[d].status = "fully_booked"]_vars

\* ---------------------------------------------------- the claim on the filters
\* the donation passes the filters f: its text holds the search term, if any, and
\* its status is the one asked for, 'available' standing for available and
\* partially_claimed, 'all' for any
Admits(f, donation) ==
    /\ f.search # "" => donation.foodItem = f.search
    /\ \/ f.status = "all"
       \/ f.status = "available" /\ donation.status \in {"available", "partially_claimed"}
       \/ f.status # "available" /\ donation.status = f.status

\* C26: in every state of the page, filteredDonations is donations filtered by
\* the current filters: in the first render, with the status filter 'available',
\* after every snapshot, and after 'Clear Filters'.
C26_FilteredFollowsFilters ==
    \A c \in Clients :
        filteredDonations[c] = SelectSeq(donations[c], LAMBDA d : Admits(filters[c], d))

====
